---- MODULE Spec2Model ----
(***************************************************************************)
(* news-notifier: the seen-set store (load_seen_ids / save_seen_ids), the  *)
(* source adapters (fetch_te_news, fetch_rss_articles) and the dispatch    *)
(* loop of run(), as a state machine.                                      *)
(*                                                                         *)
(* Python strings are sequences of one-character strings, so that          *)
(* prefixing, str.isdigit, `":" in s`, strip and slugification are         *)
(* computed character by character.                                        *)
(***************************************************************************)
EXTENDS Integers, Sequences, FiniteSets, TLC

VARIABLES
    file,       \* the state file at get_state_path(): absent, unreadable, or its content
    pc,         \* position of the process in run()
    webhook,    \* whether this call of run() found a webhook URL
    seen,       \* run(): the local `seen` set
    articles,   \* run(): the local `articles` list
    idx,        \* run(): 1-based position of the dispatch loop in `articles`
    sent,       \* calls of send_discord_notification made by this call of run(), in
                \* order: the candidate's index and what the call returned
    saves,      \* calls of save_seen_ids completed by this call of run()
    seen0,      \* what load_seen_ids returned to this call of run()
    fileAtStart,\* the state file when this call of run() began
    everSaved,  \* some call of save_seen_ids has completed since Init
    prev,       \* how the previous call of run() ended, with the identifiers of
                \* its candidates (if it saved) or of its notifications (if killed)
    cycle,      \* number of the current call of run()
    inputs,     \* what this call of run() was given: its `limit` argument and the
                \* responses of the API and of the feeds (recorded in SpecFetch)
    main        \* main(): --loop, args.interval, and the time.sleep calls made

vars == <<file, pc, webhook, seen, articles, idx, sent, saves, seen0,
          fileAtStart, everSaved, prev, cycle, inputs, main>>

----------------------------------------------------------------------------
(* Bounds of the model *)

\* calls of run() in one behaviour
MaxCycles == 2
\* longest response of the news API
MaxTE == 2
\* longest entry list of one feed
MaxFeedEntries == 1

----------------------------------------------------------------------------
(* Strings *)

Digits == {"0", "1", "2", "3", "4", "5", "6", "7", "8", "9"}

DigitChar(d) == <<"0", "1", "2", "3", "4", "5", "6", "7", "8", "9">>[d + 1]

RECURSIVE Decimal(_)
\* str(n) of a non-negative int
Decimal(n) == IF n < 10 THEN <<DigitChar(n)>>
              ELSE Decimal(n \div 10) \o <<DigitChar(n % 10)>>

\* s.isdigit(): non-empty and every character a digit
IsDigit(s) == Len(s) > 0 /\ \A i \in 1..Len(s) : s[i] \in Digits

\* c in s
Contains(s, c) == \E i \in 1..Len(s) : s[i] = c

\* s.startswith(p)
StartsWith(s, p) == Len(s) >= Len(p) /\ SubSeq(s, 1, Len(p)) = p

RECURSIVE LStrip(_, _)
LStrip(s, cs) == IF s # <<>> /\ Head(s) \in cs THEN LStrip(Tail(s), cs) ELSE s

RECURSIVE RStrip(_, _)
RStrip(s, cs) == IF s # <<>> /\ s[Len(s)] \in cs
                 THEN RStrip(SubSeq(s, 1, Len(s) - 1), cs) ELSE s

Whitespace == {" "}

\* s.strip()
Strip(s) == RStrip(LStrip(s, Whitespace), Whitespace)

----------------------------------------------------------------------------
(* JSON values of the state file *)

\* One element of a JSON array (or one key of a JSON object).
StrEntry(s) == [t |-> "str", s |-> s, n |-> 0]
IntEntry(n) == [t |-> "int", s |-> <<>>, n |-> n]
NullEntry == [t |-> "null", s |-> <<>>, n |-> 0]

\* str(i)
PyStr(e) == CASE e.t = "str" -> e.s
              [] e.t = "int" -> Decimal(e.n)
              [] OTHER -> <<"N", "o", "n", "e">>

(* The state file. kind: "absent" (no such path), "unreadable" (open raises *)
(* OSError), "undecodable" (bytes that are not UTF-8: the read raises       *)
(* UnicodeDecodeError), "invalid" (text that is not JSON), "json". For      *)
(* "json", top is the type of the document: "scalar" (number, null, true),  *)
(* "str", "list", "dict".                                                   *)
(* A dict either has the key "ids" (hasIds), whose value has type vtype,    *)
(* or not. items: the elements of the list (the document, or the value of   *)
(* "ids"), or the keys of a dict without "ids"; text: the characters of the *)
(* string (the document, or the value of "ids"). load_seen_ids builds a set *)
(* from what it iterates, so the order and multiplicity of a JSON array are *)
(* not kept: items is a set.                                                *)
File(kind, top, hasIds, vtype, items, text) ==
    [kind |-> kind, top |-> top, hasIds |-> hasIds, vtype |-> vtype,
     items |-> items, text |-> text]

Absent == File("absent", "none", FALSE, "none", {}, <<>>)
Unreadable == File("unreadable", "none", FALSE, "none", {}, <<>>)
Undecodable == File("undecodable", "none", FALSE, "none", {}, <<>>)
Invalid == File("invalid", "none", FALSE, "none", {}, <<>>)
JsonScalar == File("json", "scalar", FALSE, "none", {}, <<>>)
JsonStr(text) == File("json", "str", FALSE, "none", {}, text)
JsonList(items) == File("json", "list", FALSE, "none", items, <<>>)
JsonDictNoIds(keys) == File("json", "dict", FALSE, "none", keys, <<>>)
JsonDictIdsScalar == File("json", "dict", TRUE, "scalar", {}, <<>>)
JsonDictIdsStr(text) == File("json", "dict", TRUE, "str", {}, text)
\* {"ids": [...]}, the format save_seen_ids writes
JsonDictIds(items) == File("json", "dict", TRUE, "list", items, <<>>)

----------------------------------------------------------------------------
(* load_seen_ids *)

TE_PREFIX == <<"t", "e", ":">>

\* Migrate prefixing every id that has no colon
MigrateUnprefixed(e) ==
    LET s == PyStr(e) IN IF ~Contains(s, ":") THEN TE_PREFIX \o s ELSE s

\* load_seen_ids without the migration
MigrateNever(e) == PyStr(e)

\* load_seen_ids, the loop body: s = str(i), then the migration of a legacy id
Migrate(e) ==
    LET s == PyStr(e)
    IN IF s # <<>> /\ ~Contains(s, ":") /\ IsDigit(s) THEN TE_PREFIX \o s ELSE s

\* ids = data.get("ids", data) if isinstance(data, dict) else data: the type of ids
IdsType(f) == IF f.top = "dict" /\ f.hasIds THEN f.vtype ELSE f.top

\* what `for i in ids` yields; a str yields its characters, a dict its keys
IdsIter(f) == IF IdsType(f) = "str"
              THEN {StrEntry(<<f.text[k]>>) : k \in 1..Len(f.text)}
              ELSE f.items

\* load_seen_ids(state_path): raised is an exception that leaves the function.
\* The except clause catches json.JSONDecodeError and OSError; iterating a
\* number or null raises TypeError, and UnicodeDecodeError is a ValueError.
load_seen_ids(f) ==
    CASE f.kind = "absent" -> [raised |-> FALSE, ids |-> {}]
      [] f.kind \in {"unreadable", "invalid"} -> [raised |-> FALSE, ids |-> {}]
      [] f.kind = "undecodable" -> [raised |-> TRUE, ids |-> {}]
      [] f.kind = "json" /\ IdsType(f) = "scalar" -> [raised |-> TRUE, ids |-> {}]
      [] OTHER -> [raised |-> FALSE, ids |-> {Migrate(e) : e \in IdsIter(f)}]

----------------------------------------------------------------------------
(* save_seen_ids *)

\* MAX_SEEN_IDS, 3000 in the source: scaled down so that the seen set of the
\* model can exceed it.
MAX_SEEN_IDS == 3

\* The members of ids_list[-n:] for ids_list = list(S). A Python set has no
\* order of its own (the order of list(S) follows the hashes of the strings,
\* which differ from process to process), so the last n members of list(S) can
\* be any n members of S.
LastOfList(S, n) == {K \in SUBSET S : Cardinality(K) = n}

\* save_seen_ids with the truncation left out
save_seen_ids_uncapped(seen_ids) == {JsonDictIds({StrEntry(s) : s \in seen_ids})}

\* save_seen_ids truncating from len(ids_list) >= MAX_SEEN_IDS, to one entry less
save_seen_ids_offbyone(seen_ids) ==
    LET kept == IF Cardinality(seen_ids) >= MAX_SEEN_IDS
                THEN LastOfList(seen_ids, MAX_SEEN_IDS - 1)
                ELSE {seen_ids}
    IN {JsonDictIds({StrEntry(s) : s \in ids_list}) : ids_list \in kept}

\* save_seen_ids(state_path, seen_ids): the contents the file can have afterwards
save_seen_ids(seen_ids) ==
    LET kept == IF Cardinality(seen_ids) > MAX_SEEN_IDS
                THEN LastOfList(seen_ids, MAX_SEEN_IDS)
                ELSE {seen_ids}
    IN {JsonDictIds({StrEntry(s) : s \in ids_list}) : ids_list \in kept}

----------------------------------------------------------------------------
(* The news API adapter *)

TE_BASE_URL == <<"h", "t", "t", "p", "s", ":", "/", "/", "t", "r", "a", "d", "i", "n", "g", "e", "c", "o", "n", "o", "m", "i", "c", "s", ".", "c", "o", "m">>

\* article_full_url(relative_url)
article_full_url(relative_url) ==
    LET path0 == Strip(relative_url)
        path == IF ~StartsWith(path0, <<"/">>) THEN <<"/">> \o path0 ELSE path0
    IN RStrip(TE_BASE_URL, {"/"}) \o path

\* An item of the API's response: id is NullEntry when the item has no "id";
\* url is "" when the item has no "url".
TEItem(id, url) == [id |-> id, url |-> url, isdict |-> TRUE]

\* An element of the response's list that is not a JSON object (a string, a
\* number, null): it has no .get
NonDictItem == [id |-> NullEntry, url |-> <<>>, isdict |-> FALSE]

TEItems == {TEItem(IntEntry(1), <<"/", "n", "e", "w", "s", "/", "1">>),
            TEItem(IntEntry(42), <<"n", "e", "w", "s", "/", "2">>),
            TEItem(NullEntry, <<>>),
            NonDictItem}

RECURSIVE SeqsUpTo(_, _)
\* the sequences over S of length at most n
SeqsUpTo(S, n) == IF n = 0 THEN {<<>>}
                  ELSE LET shorter == SeqsUpTo(S, n - 1)
                       IN shorter \cup {Append(q, x) : q \in shorter, x \in S}

\* What the API request can produce: "error" (a RequestException, or a body
\* that is not JSON), "nonlist" (JSON that is not a list), "list".
TEResponses == {[kind |-> "error", items |-> <<>>], [kind |-> "nonlist", items |-> <<>>]}
               \cup {[kind |-> "list", items |-> q] : q \in SeqsUpTo(TEItems, MaxTE)}

\* fetch_te_news(api_key, limit)
fetch_te_news(resp) == IF resp.kind = "list" THEN resp.items ELSE <<>>

\* A candidate: the keys of the article dict that the dispatch loop's control
\* flow and the notification's link and label depend on (title and
\* description are passed through to the notification unchanged).
Article(id, link, source) == [id |-> id, link |-> link, source |-> source]

TE_SOURCE == <<"T", "r", "a", "d", "i", "n", "g", "E", "c", "o", "n", "o", "m", "i", "c", "s">>

RECURSIVE te_articles(_)
\* run(): the loop over te_items that builds `articles`
te_articles(te_items) ==
    IF te_items = <<>> THEN <<>>
    ELSE LET item == Head(te_items)
         IN (IF item.id = NullEntry THEN <<>>
             ELSE <<Article(TE_PREFIX \o PyStr(item.id), article_full_url(item.url),
                            TE_SOURCE)>>)
            \o te_articles(Tail(te_items))

\* run(), line 165: item.get raises AttributeError for an element that is not
\* a dict; nothing in run() catches it
te_raises(te_items) == \E k \in 1..Len(te_items) : ~te_items[k].isdict

\* run(), lines 162-176: the loop over te_items, as a whole
te_loop(te_items) ==
    [raised |-> te_raises(te_items),
     articles |-> IF te_raises(te_items) THEN <<>> ELSE te_articles(te_items)]

----------------------------------------------------------------------------
(* The RSS adapter *)

\* Two of the nine configured feeds, in their configured order.
RSS_FEEDS == <<<<"F", "T", " ", "H", "o", "m", "e">>,
               <<"F", "T", " ", "W", "o", "r", "l", "d">>>>

LINK_A == <<"h", "t", "t", "p", "s", ":", "/", "/", "e", "x", "a", "m", "p", "l", "e", ".", "c", "o", "m", "/", "a">>
LINK_B == <<"h", "t", "t", "p", "s", ":", "/", "/", "e", "x", "a", "m", "p", "l", "e", ".", "c", "o", "m", "/", "b">>

\* hashlib.md5(link).hexdigest(), cut to its first two characters; distinct on
\* the links of the model
md5_hexdigest(link) == CASE link = LINK_A -> <<"c", "d">>
                         [] link = LINK_B -> <<"4", "3">>
                         [] OTHER -> <<"0", "0">>

RSS_PREFIX == <<"r", "s", "s", ":">>

\* _article_id without the source in the identifier
_article_id_nosource(source, link) == RSS_PREFIX \o md5_hexdigest(link)

\* _article_id(source, link)
_article_id(source, link) == RSS_PREFIX \o source \o <<":">> \o md5_hexdigest(link)

\* c.lower() for the characters of the feed names
Lower(c) == CASE c = "F" -> "f" [] c = "T" -> "t" [] c = "H" -> "h"
              [] c = "W" -> "w" [] OTHER -> c

\* _normalize_source(name)
_normalize_source(name) ==
    [i \in 1..Len(name) |-> IF Lower(name[i]) = " " THEN "-" ELSE Lower(name[i])]

\* The links an entry of a feed can carry ("" when it has none).
FeedLinks == {LINK_A, <<>>}

\* What feedparser.parse can produce for one feed: raises, or a parsed feed
\* with its bozo flag and its entries (each entry given by its link).
FeedResponses ==
    {[raises |-> TRUE, bozo |-> FALSE, entries |-> <<>>]}
    \cup {[raises |-> FALSE, bozo |-> b, entries |-> q] :
            b \in BOOLEAN, q \in SeqsUpTo(FeedLinks, MaxFeedEntries)}

RECURSIVE feed_entries(_, _, _, _)
\* fetch_rss_articles: the loop over parsed.entries, from index i (0-based)
feed_entries(name, entries, i, limit_per_feed) ==
    IF i >= Len(entries) \/ i >= limit_per_feed THEN <<>>
    ELSE LET link == Strip(entries[i + 1])
         IN (IF link = <<>> THEN <<>>
             ELSE <<Article(_article_id(_normalize_source(name), link), link, name)>>)
            \o feed_entries(name, entries, i + 1, limit_per_feed)

\* fetch_rss_articles: the body of the loop over RSS_FEEDS, for one feed
feed_articles(name, resp, limit_per_feed) ==
    IF resp.raises \/ (resp.bozo /\ resp.entries = <<>>) THEN <<>>
    ELSE feed_entries(name, resp.entries, 0, limit_per_feed)

RECURSIVE fetch_rss_from(_, _, _)
fetch_rss_from(k, resps, limit_per_feed) ==
    IF k > Len(RSS_FEEDS) THEN <<>>
    ELSE feed_articles(RSS_FEEDS[k], resps[k], limit_per_feed)
         \o fetch_rss_from(k + 1, resps, limit_per_feed)

\* fetch_rss_articles(limit_per_feed), given each feed's response
fetch_rss_articles(resps, limit_per_feed) == fetch_rss_from(1, resps, limit_per_feed)

\* run() calls fetch_rss_articles(limit_per_feed=15)
RSS_LIMIT == 15

----------------------------------------------------------------------------
(* run() *)

ID_TE1 == TE_PREFIX \o Decimal(1)
ID_TE42 == TE_PREFIX \o Decimal(42)
ID_RSS_A == _article_id(_normalize_source(RSS_FEEDS[1]), LINK_A)

\* State files the process can find when it starts.
InitFiles ==
    {Absent, JsonScalar, JsonDictIdsScalar,
     \* the legacy format: a bare list of numeric ids
     JsonList({StrEntry(Decimal(1)), IntEntry(42)}),
     JsonDictIds({StrEntry(ID_TE1), StrEntry(ID_TE42), StrEntry(ID_RSS_A)}),
     JsonDictIds({StrEntry(ID_TE1), StrEntry(ID_TE42), StrEntry(ID_RSS_A),
                  StrEntry(<<"a", "b">>)})}

NoPrev == [outcome |-> "none", ids |-> {}]

\* No response recorded.
NoInputs == [limit |-> 0, te |-> [kind |-> "none", items |-> <<>>], rss |-> <<>>]

\* main() has not been entered: run() is called directly (cron, a supervisor).
NoMain == [loop |-> FALSE, arg |-> 0, interval |-> 0, slept |-> <<>>]

\* The state before the first call of run(), for a state file among files.
InitWith(files) ==
    /\ file \in files
    /\ pc = "start"
    /\ webhook = FALSE
    /\ seen = {}
    /\ articles = <<>>
    /\ idx = 0
    /\ sent = <<>>
    /\ saves = 0
    /\ seen0 = {}
    /\ fileAtStart = file
    /\ everSaved = FALSE
    /\ prev = NoPrev
    /\ cycle = 1
    /\ inputs = NoInputs
    /\ main = NoMain

Init == InitWith(InitFiles)

\* What the discord_webhook_url argument and the DISCORD_WEBHOOK_URL variable
\* can hold: nothing (None, unset or ""; `or` treats them alike), blanks, a URL.
WebhookValues == {<<>>, <<" ">>, <<" ", " ">>, <<" ", "u", " ">>}

\* get_discord_webhook_url(), given the environment variable
get_discord_webhook_url(env) == Strip(env)

\* run(), line 151: (discord_webhook_url or get_discord_webhook_url()).strip()
webhook_url(discord_webhook_url, env) ==
    Strip(IF discord_webhook_url # <<>> THEN discord_webhook_url
          ELSE get_discord_webhook_url(env))

\* run() with load_seen_ids called before the webhook is tested
RunNoWebhookLate ==
    /\ pc = "start"
    /\ \E arg, env \in WebhookValues : webhook_url(arg, env) = <<>>
    /\ webhook' = FALSE
    /\ LET r == load_seen_ids(file)
       IN IF r.raised
          THEN pc' = "crashed" /\ UNCHANGED <<seen, seen0>>
          ELSE pc' = "returned" /\ seen' = r.ids /\ seen0' = r.ids
    /\ UNCHANGED <<file, articles, idx, sent, saves, fileAtStart, everSaved, prev,
                   cycle, inputs, main>>

\* run(), lines 151-154: no webhook URL in the argument or the environment
RunNoWebhook ==
    /\ pc = "start"
    /\ \E arg, env \in WebhookValues : webhook_url(arg, env) = <<>>
    /\ webhook' = FALSE
    /\ pc' = "returned"
    /\ UNCHANGED <<file, seen, articles, idx, sent, saves, seen0, fileAtStart,
                   everSaved, prev, cycle>>
    /\ UNCHANGED <<inputs, main>>

\* run(), lines 151-158: a webhook URL is set; seen = load_seen_ids(path)
RunLoad ==
    /\ pc = "start"
    /\ \E arg, env \in WebhookValues : webhook_url(arg, env) # <<>>
    /\ webhook' = TRUE
    /\ LET r == load_seen_ids(file)
       IN IF r.raised
          THEN pc' = "crashed" /\ UNCHANGED <<seen, seen0>>
          ELSE pc' = "fetch_te" /\ seen' = r.ids /\ seen0' = r.ids
    /\ UNCHANGED <<file, articles, idx, sent, saves, fileAtStart, everSaved, prev, cycle>>
    /\ UNCHANGED <<inputs, main>>

\* run(), lines 161-176: fetch the API's news and build the candidates
\* r is how the loop over te_items ended: with an exception, or with the
\* candidates it built
FetchTEResult(r) ==
    /\ pc = "fetch_te"
    /\ IF r.raised
       THEN pc' = "crashed_fetch" /\ UNCHANGED articles
       ELSE pc' = "fetch_rss" /\ articles' = r.articles
    /\ UNCHANGED <<file, webhook, seen, idx, sent, saves, seen0, fileAtStart,
                   everSaved, prev, cycle, main>>

FetchTEStep(resp) == FetchTEResult(te_loop(fetch_te_news(resp)))

\* How the fetch and the loop can end, over the responses of the API.
TEResults == {te_loop(fetch_te_news(resp)) : resp \in TEResponses}

FetchTE ==
    /\ pc = "fetch_te"
    /\ \E r \in TEResults : FetchTEResult(r) /\ UNCHANGED inputs

\* run(), lines 179-181 with rss_enabled: articles.extend(fetch_rss_articles(...))
\* run() with the feeds' articles put before the API's
FetchRSSStepFirst(resps) ==
    /\ pc = "fetch_rss"
    /\ articles' = fetch_rss_articles(resps, RSS_LIMIT) \o articles
    /\ pc' = "dispatch"
    /\ idx' = 1
    /\ UNCHANGED <<file, webhook, seen, sent, saves, seen0, fileAtStart,
                   everSaved, prev, cycle, main>>

FetchRSSStep(resps) ==
    /\ pc = "fetch_rss"
    /\ articles' = articles \o fetch_rss_articles(resps, RSS_LIMIT)
    /\ pc' = "dispatch"
    /\ idx' = 1
    /\ UNCHANGED <<file, webhook, seen, sent, saves, seen0, fileAtStart,
                   everSaved, prev, cycle, main>>

\* What fetch_rss_articles can return, over the responses of the feeds.
RSSResults ==
    {fetch_rss_articles(resps, RSS_LIMIT) : resps \in [1..Len(RSS_FEEDS) -> FeedResponses]}

FetchRSS ==
    /\ pc = "fetch_rss"
    /\ \E rss_items \in RSSResults :
          /\ articles' = articles \o rss_items
          /\ pc' = "dispatch"
          /\ idx' = 1
    /\ UNCHANGED <<file, webhook, seen, sent, saves, seen0, fileAtStart,
                   everSaved, prev, cycle, main, inputs>>

\* run(), line 179 with rss_enabled false
SkipRSS ==
    /\ pc = "fetch_rss"
    /\ pc' = "dispatch"
    /\ idx' = 1
    /\ UNCHANGED <<file, webhook, seen, articles, sent, saves, seen0, fileAtStart,
                   everSaved, prev, cycle>>
    /\ UNCHANGED <<inputs, main>>

\* Dispatch without the test `aid in seen`
DispatchNoDedup ==
    /\ pc = "dispatch"
    /\ idx <= Len(articles)
    /\ LET item == articles[idx]
           aid == item.id
       IN IF aid = <<>>
          THEN UNCHANGED <<sent, seen>>
          ELSE \E ok \in BOOLEAN :
                  /\ sent' = Append(sent, [i |-> idx, ok |-> ok])
                  /\ seen' = seen \cup {aid}
    /\ idx' = idx + 1
    /\ UNCHANGED <<file, pc, webhook, articles, saves, seen0, fileAtStart,
                   everSaved, prev, cycle>>
    /\ UNCHANGED <<inputs, main>>

\* Dispatch with seen.add(aid) only after a successful send
DispatchMarkOnSuccess ==
    /\ pc = "dispatch"
    /\ idx <= Len(articles)
    /\ LET item == articles[idx]
           aid == item.id
       IN IF aid = <<>> \/ aid \in seen
          THEN UNCHANGED <<sent, seen>>
          ELSE \E ok \in BOOLEAN :
                  /\ sent' = Append(sent, [i |-> idx, ok |-> ok])
                  /\ seen' = IF ok THEN seen \cup {aid} ELSE seen
    /\ idx' = idx + 1
    /\ UNCHANGED <<file, pc, webhook, articles, saves, seen0, fileAtStart,
                   everSaved, prev, cycle>>
    /\ UNCHANGED <<inputs, main>>

\* Dispatch with save_seen_ids called inside the loop, after each send
DispatchCheckpoint ==
    /\ pc = "dispatch"
    /\ idx <= Len(articles)
    /\ LET item == articles[idx]
           aid == item.id
       IN IF aid = <<>> \/ aid \in seen
          THEN UNCHANGED <<sent, seen, file, saves, everSaved>>
          ELSE \E ok \in BOOLEAN :
                  /\ sent' = Append(sent, [i |-> idx, ok |-> ok])
                  /\ seen' = seen \cup {aid}
                  /\ file' \in save_seen_ids(seen')
                  /\ saves' = saves + 1
                  /\ everSaved' = TRUE
    /\ idx' = idx + 1
    /\ UNCHANGED <<pc, webhook, articles, seen0, fileAtStart, prev, cycle>>
    /\ UNCHANGED <<inputs, main>>

\* run(), lines 184-194: one iteration of the dispatch loop. ok is what
\* send_discord_notification returns (False for a status other than 200/204
\* or a RequestException), one of results.
DispatchWith(results) ==
    /\ pc = "dispatch"
    /\ idx <= Len(articles)
    /\ LET item == articles[idx]
           aid == item.id
       IN IF aid = <<>> \/ aid \in seen
          THEN UNCHANGED <<sent, seen>>
          ELSE \E ok \in results :
                  /\ sent' = Append(sent, [i |-> idx, ok |-> ok])
                  /\ seen' = seen \cup {aid}
    /\ idx' = idx + 1
    /\ UNCHANGED <<file, pc, webhook, articles, saves, seen0, fileAtStart,
                   everSaved, prev, cycle>>
    /\ UNCHANGED <<inputs, main>>

Dispatch == DispatchWith(BOOLEAN)

\* run(), line 196: save_seen_ids(path, seen), after the loop
Save ==
    /\ pc = "dispatch"
    /\ idx > Len(articles)
    /\ file' \in save_seen_ids(seen)
    /\ saves' = saves + 1
    /\ everSaved' = TRUE
    /\ pc' = "returned"
    /\ UNCHANGED <<webhook, seen, articles, idx, sent, seen0, fileAtStart, prev, cycle>>
    /\ UNCHANGED <<inputs, main>>

\* The process is terminated (a signal) after load_seen_ids and before
\* save_seen_ids.
Kill ==
    /\ pc \in {"fetch_te", "fetch_rss", "dispatch"}
    /\ pc' = "killed"
    /\ UNCHANGED <<file, webhook, seen, articles, idx, sent, saves, seen0,
                   fileAtStart, everSaved, prev, cycle>>
    /\ UNCHANGED <<inputs, main>>

\* save_seen_ids cut short at some point: the contents the file can be left
\* with. Before open() the file is as it was; open(state_path, "w") empties
\* it, and until json.dump has written everything and the file is closed it
\* holds nothing or a proper prefix of the document, which is not JSON; after
\* that it holds the whole document.
save_seen_ids_interrupted(before, seen_ids) ==
    {before, Invalid} \cup save_seen_ids(seen_ids)

\* The process is terminated (a signal) inside save_seen_ids.
KillInSave ==
    /\ pc = "dispatch"
    /\ idx > Len(articles)
    /\ file' \in save_seen_ids_interrupted(file, seen)
    /\ pc' = "killed_save"
    /\ UNCHANGED <<webhook, seen, articles, idx, sent, saves, seen0, fileAtStart,
                   everSaved, prev, cycle, inputs, main>>

\* save_seen_ids raises OSError (mkdir or open refused, the disk full while
\* writing); nothing in save_seen_ids or run() catches it.
SaveRaises ==
    /\ pc = "dispatch"
    /\ idx > Len(articles)
    /\ file' \in {file, Invalid}
    /\ pc' = "crashed_save"
    /\ UNCHANGED <<webhook, seen, articles, idx, sent, saves, seen0, fileAtStart,
                   everSaved, prev, cycle, inputs, main>>

\* The arguments of the k-th call of send_discord_notification.
SentCall(k) == articles[sent[k].i]

SentIds == {SentCall(k).id : k \in 1..Len(sent)}

\* How a call of run() that has ended has ended.
Outcome == CASE pc = "killed" -> "killed"
             [] pc = "killed_save" -> "killed_save"
             [] pc \in {"returned", "sleeping"} /\ saves > 0 -> "saved"
             [] OTHER -> "skipped"

\* The next call of run(): the next iteration of main()'s loop, or the next
\* start of the process (cron, a supervisor).
StartRun ==
    /\ cycle < MaxCycles
    /\ cycle' = cycle + 1
    /\ prev' = [outcome |-> Outcome,
                ids |-> CASE Outcome = "saved" -> {articles[k].id : k \in 1..Len(articles)}
                          [] Outcome = "killed" -> SentIds
                          [] OTHER -> {}]
    /\ pc' = "start"
    /\ webhook' = FALSE
    /\ seen' = {}
    /\ articles' = <<>>
    /\ idx' = 0
    /\ sent' = <<>>
    /\ saves' = 0
    /\ seen0' = {}
    /\ fileAtStart' = file
    /\ UNCHANGED <<file, everSaved, inputs, main>>

NextRun == pc \in {"returned", "killed", "killed_save"} /\ StartRun

Next ==
    \/ RunNoWebhook
    \/ RunLoad
    \/ FetchTE
    \/ FetchRSS
    \/ SkipRSS
    \/ Dispatch
    \/ Save
    \/ Kill
    \/ NextRun

Spec == Init /\ [][Next]_vars

----------------------------------------------------------------------------
(* The same calls of run(), with save_seen_ids cut short or failing *)

NextCrash ==
    \/ Next
    \/ KillInSave
    \/ SaveRaises

SpecCrash == Init /\ [][NextCrash]_vars

----------------------------------------------------------------------------
(* main(): run() once, or the loop of --loop *)

DEFAULT_INTERVAL == 900

\* Values of args.interval (--interval or NOTIFIER_INTERVAL_SECONDS).
Intervals == {0 - 5, 0, 59, 60, 61, DEFAULT_INTERVAL}

MainFiles == {Absent, Unreadable, Invalid, JsonDictIdsScalar}

InitMain ==
    /\ file \in MainFiles
    /\ pc = "main"
    /\ webhook = FALSE
    /\ seen = {}
    /\ articles = <<>>
    /\ idx = 0
    /\ sent = <<>>
    /\ saves = 0
    /\ seen0 = {}
    /\ fileAtStart = file
    /\ everSaved = FALSE
    /\ prev = NoPrev
    /\ cycle = 1
    /\ inputs = NoInputs
    /\ \E loop \in BOOLEAN, interval \in Intervals :
          main = [loop |-> loop, arg |-> interval, interval |-> interval, slept |-> <<>>]

\* main() without the floor of 60 seconds
MainArgsNoFloor ==
    /\ pc = "main"
    /\ main' = main
    /\ pc' = "start"
    /\ UNCHANGED <<file, webhook, seen, articles, idx, sent, saves, seen0,
                   fileAtStart, everSaved, prev, cycle, inputs>>

\* main(), lines 45-52: the arguments are parsed; with --loop an interval
\* under 60 is replaced by 60; run() is called
MainArgs ==
    /\ pc = "main"
    /\ main' = [main EXCEPT !.interval = IF main.loop /\ main.interval < 60
                                         THEN 60 ELSE main.interval]
    /\ pc' = "start"
    /\ UNCHANGED <<file, webhook, seen, articles, idx, sent, saves, seen0,
                   fileAtStart, everSaved, prev, cycle, inputs>>

\* main(), line 54: run() has returned; time.sleep(args.interval)
LoopSleep ==
    /\ pc = "returned"
    /\ main.loop
    /\ main' = [main EXCEPT !.slept = Append(@, main.interval)]
    /\ pc' = "sleeping"
    /\ UNCHANGED <<file, webhook, seen, articles, idx, sent, saves, seen0,
                   fileAtStart, everSaved, prev, cycle, inputs>>

\* main(), lines 52-53: the sleep is over; the next iteration calls run()
LoopNext == pc = "sleeping" /\ StartRun

\* main(), line 56: without --loop, run() has returned and main() ends
MainExit ==
    /\ pc = "returned"
    /\ ~main.loop
    /\ pc' = "exited"
    /\ UNCHANGED <<file, webhook, seen, articles, idx, sent, saves, seen0,
                   fileAtStart, everSaved, prev, cycle, inputs, main>>

\* Responses of the API in the runs of main().
MainTEResponses ==
    {[kind |-> "error", items |-> <<>>],
     [kind |-> "list", items |-> <<TEItem(IntEntry(1), <<"/", "n", "e", "w", "s", "/", "1">>)>>],
     [kind |-> "list", items |-> <<NonDictItem>>]}

\* Responses of the feeds in the runs of main().
MainFeedResponses ==
    {[k \in 1..Len(RSS_FEEDS) |-> [raises |-> TRUE, bozo |-> FALSE, entries |-> <<>>]],
     [k \in 1..Len(RSS_FEEDS) |-> [raises |-> FALSE, bozo |-> FALSE,
                                    entries |-> IF k = 1 THEN <<LINK_A>> ELSE <<>>]]}

FetchTEMain ==
    /\ pc = "fetch_te"
    /\ \E resp \in MainTEResponses : FetchTEStep(resp) /\ UNCHANGED inputs

FetchRSSMain ==
    /\ pc = "fetch_rss"
    /\ \E resps \in MainFeedResponses : FetchRSSStep(resps) /\ UNCHANGED inputs

NextMain ==
    \/ MainArgs
    \/ RunNoWebhook
    \/ RunLoad
    \/ FetchTEMain
    \/ FetchRSSMain
    \/ Dispatch
    \/ Save
    \/ SaveRaises
    \/ LoopSleep
    \/ LoopNext
    \/ MainExit

SpecMain == InitMain /\ [][NextMain]_vars

----------------------------------------------------------------------------
(* One call of run() over a wide set of responses, which are recorded *)

\* entries of one feed's response
MaxFeedWide == 2

\* The `limit` argument of run() (DEFAULT_LIMIT is 20).
FetchLimit == 1

FeedLinksWide == {LINK_A, LINK_B}

\* feedparser.parse raises; a feed that is not well-formed, without entries;
\* a feed whose first entry has no link; feeds with entries that have links
FeedResponsesWide ==
    {[raises |-> TRUE, bozo |-> FALSE, entries |-> <<>>],
     [raises |-> FALSE, bozo |-> TRUE, entries |-> <<>>],
     [raises |-> FALSE, bozo |-> FALSE, entries |-> <<<<>>, LINK_A>>]}
    \cup {[raises |-> FALSE, bozo |-> FALSE, entries |-> q] :
            q \in SeqsUpTo(FeedLinksWide, MaxFeedWide)}

FetchFiles == {Absent, JsonDictIds({StrEntry(ID_TE42), StrEntry(ID_RSS_A)})}

InitFetch ==
    /\ file \in FetchFiles
    /\ pc = "start"
    /\ webhook = FALSE
    /\ seen = {}
    /\ articles = <<>>
    /\ idx = 0
    /\ sent = <<>>
    /\ saves = 0
    /\ seen0 = {}
    /\ fileAtStart = file
    /\ everSaved = FALSE
    /\ prev = NoPrev
    /\ cycle = 1
    /\ inputs = [NoInputs EXCEPT !.limit = FetchLimit]
    /\ main = NoMain

FetchTEWide ==
    /\ pc = "fetch_te"
    /\ \E resp \in TEResponses :
          FetchTEStep(resp) /\ inputs' = [inputs EXCEPT !.te = resp]

FetchRSSWide ==
    /\ pc = "fetch_rss"
    /\ \E resps \in [1..Len(RSS_FEEDS) -> FeedResponsesWide] :
          FetchRSSStep(resps) /\ inputs' = [inputs EXCEPT !.rss = resps]

\* The dispatch loop with every send successful.
DispatchSent == DispatchWith({TRUE})

NextFetch ==
    \/ RunLoad
    \/ FetchTEWide
    \/ FetchRSSWide
    \/ DispatchSent
    \/ Save

SpecFetch == InitFetch /\ [][NextFetch]_vars

----------------------------------------------------------------------------
(* load_seen_ids on its own, over a wide set of state files *)

LoadEntries ==
    {StrEntry(Decimal(1)), StrEntry(Decimal(42)), StrEntry(ID_TE1),
     StrEntry(ID_RSS_A), StrEntry(<<"a", "b">>), StrEntry(<<"1", ":", "2">>),
     StrEntry(<<>>), IntEntry(42)}

LoadFiles ==
    {Absent, Unreadable, Undecodable, Invalid, JsonScalar, JsonDictIdsScalar,
     JsonStr(<<"a", "b">>), JsonStr(<<"4", "2">>), JsonDictIdsStr(<<"4", ":">>),
     JsonDictNoIds({StrEntry(<<"v", "1">>)}), JsonDictNoIds({})}
    \cup {JsonList(S) : S \in SUBSET LoadEntries}
    \cup {JsonDictIds(S) : S \in SUBSET LoadEntries}

InitLoad == InitWith(LoadFiles)

NextLoad == RunLoad

SpecLoad == InitLoad /\ [][NextLoad]_vars

----------------------------------------------------------------------------
(* Properties *)

\* The number of calls of send_discord_notification made for identifier id.
SentCount(id) == Cardinality({k \in 1..Len(sent) : SentCall(k).id = id})

CandidateIds == {articles[k].id : k \in 1..Len(articles)}

\* The identifiers of the candidates the dispatch loop has gone through.
ProcessedIds == {articles[k].id : k \in 1..(idx - 1)}

\* The dispatch loop of this call of run() has ended.
LoopDone == pc \in {"dispatch", "returned"} /\ idx > Len(articles)

\* This call of run() has returned from save_seen_ids.
Completed == pc = "returned" /\ saves > 0

\* C1: a call of run() that follows a call which completed its save sends no
\* notification for an identifier that was among the earlier call's
\* candidates (each of which that call notified or found already seen).
C1_NoSecondNotification ==
    prev.outcome = "saved" =>
        \A k \in 1..Len(sent) : SentCall(k).id \notin prev.ids

\* C2: a candidate whose identifier is empty or was loaded as seen gets no
\* notification call; every other identifier gets exactly one call once the
\* loop has passed its first occurrence, however often it occurs.
C2_OneCallPerNewId ==
    \A id \in CandidateIds :
        SentCount(id) = IF id = <<>> \/ id \in seen0 THEN 0
                        ELSE IF id \in ProcessedIds THEN 1 ELSE 0

\* A completed loop over candidates of which one identifier occurs twice and
\* is new, and another was loaded as seen.
C2_Witness ==
    /\ LoopDone
    /\ \E j, k \in 1..Len(articles) :
          j < k /\ articles[j].id = articles[k].id /\ articles[j].id \notin seen0
          /\ SentCount(articles[j].id) = 1
    /\ \E k \in 1..Len(articles) : articles[k].id \in seen0

\* C3: a failed send marks its article as seen and is not repeated, and when
\* the loop ends every new identifier has been sent once and is in the seen
\* set, whichever sends failed.
C3_FailForward ==
    /\ \A k \in 1..Len(sent) :
          ~sent[k].ok => SentCall(k).id \in seen /\ SentCount(SentCall(k).id) = 1
    /\ LoopDone =>
          \A id \in CandidateIds \ (seen0 \cup {<<>>}) :
              id \in seen /\ SentCount(id) = 1

\* Three new articles, the send of the second failed, the other two sent.
C3_Witness ==
    /\ LoopDone
    /\ Len(sent) = 3
    /\ sent[1].ok /\ ~sent[2].ok /\ sent[3].ok
    /\ SentIds \subseteq seen

\* The number of identifiers a load of the state file f can find.
PersistedCount(f) == IF f.kind = "json" THEN Cardinality(IdsIter(f)) ELSE 0

\* C4: once a save has completed, the state file holds at most MAX_SEEN_IDS
\* identifiers, in every later state.
C4_BoundedPersistence ==
    everSaved => /\ file.kind = "json" /\ IdsType(file) = "list"
                 /\ PersistedCount(file) <= MAX_SEEN_IDS

\* A save of a seen set larger than the cap has completed.
C4_Witness == Completed /\ Cardinality(seen) > MAX_SEEN_IDS

\* The state file is a list of identifiers or an object with a list under "ids".
WellFormed(f) == f.kind = "json" /\ IdsType(f) = "list" /\ (f.top = "dict" => f.hasIds)

\* C5: load_seen_ids never raises, and returns the empty set for a state file
\* that is absent, unreadable or malformed.
C5_LoadFailsOpen ==
    /\ pc # "crashed"
    /\ (pc = "fetch_te" /\ ~WellFormed(file)) => seen0 = {}

\* In the claim's words: a non-empty string of digits only, without a colon.
BareNumeric(s) ==
    /\ s # <<>>
    /\ \A i \in 1..Len(s) : s[i] \in Digits /\ s[i] # ":"

\* C6: of a well-formed state file, load_seen_ids returns "te:" + s for every
\* bare numeric entry s, every other entry as it is, and nothing else; so a
\* file of bare numeric strings only loads to identifiers that all start "te:".
C6_Migration ==
    (pc = "fetch_te" /\ WellFormed(file)) =>
        /\ \A e \in file.items :
              e.t = "str" =>
                  IF BareNumeric(e.s) THEN TE_PREFIX \o e.s \in seen0
                  ELSE e.s \in seen0
        /\ \A x \in seen0 :
              \E e \in file.items :
                  x = IF BareNumeric(PyStr(e)) THEN TE_PREFIX \o PyStr(e) ELSE PyStr(e)
        /\ (\A e \in file.items : e.t = "str" /\ BareNumeric(e.s)) =>
              \A x \in seen0 : StartsWith(x, TE_PREFIX)

\* A loaded file with a bare numeric entry, a prefixed one and an unprefixed
\* non-numeric one.
C6_Witness ==
    /\ pc = "fetch_te"
    /\ WellFormed(file)
    /\ {StrEntry(Decimal(42)), StrEntry(ID_TE1), StrEntry(<<"a", "b">>)} \subseteq file.items
    /\ {ID_TE42, ID_TE1, <<"a", "b">>} \subseteq seen0
    /\ Decimal(42) \notin seen0

\* Every candidate of this call was loaded as seen.
AllSeen == CandidateIds \subseteq seen0

ExpectedLink(u) == TE_BASE_URL \o (IF u # <<>> /\ u[1] = "/" THEN u ELSE <<"/">> \o u)

\* C8: after a completed call of run(), every identifier notified in it is in
\* the persisted state, and an API article's notification carries the base
\* URL followed by its relative url.
C8_NotifiedPersisted ==
    Completed =>
        \A k \in 1..Len(sent) :
            /\ SentCall(k).id \in load_seen_ids(file).ids
            /\ \A item \in TEItems :
                  (item.id # NullEntry /\ SentCall(k).id = TE_PREFIX \o PyStr(item.id))
                      => SentCall(k).link = ExpectedLink(item.url)

InCycle == pc \in {"fetch_te", "fetch_rss", "dispatch"}

\* C9: a call of run() with a webhook that returns has saved exactly once;
\* nothing is saved before the loop has ended, and no notification follows a
\* save.
C9_SaveOnceAtEnd ==
    /\ []((pc = "returned" /\ webhook) => saves = 1)
    /\ []((InCycle \/ pc = "killed") => saves = 0 /\ file = fileAtStart)
    /\ [][(saves' > saves \/ file' # file) =>
             (pc = "dispatch" /\ idx > Len(articles) /\ saves' = saves + 1
              /\ sent' = sent /\ pc' = "returned")]_vars

\* A call with a webhook has returned after two notifications and one save.
C9_Witness == pc = "returned" /\ webhook /\ saves = 1 /\ Len(sent) >= 2

\* C10: until save_seen_ids runs, and after a kill before it, the state file
\* is what it was when the call began; and the call that follows a killed one
\* notifies again every identifier the killed call had notified that is among
\* its candidates.
C10_KilledCycleIsLost ==
    /\ (InCycle \/ pc = "killed") => file = fileAtStart
    /\ (prev.outcome = "killed" /\ LoopDone) =>
          \A id \in prev.ids \cap CandidateIds : SentCount(id) = 1

\* The call after a killed one has notified again an identifier the killed
\* call had notified.
C10_Witness ==
    /\ prev.outcome = "killed"
    /\ LoopDone
    /\ \E id \in prev.ids : SentCount(id) = 1

\* Empty or whitespace.
Blank(s) == \A k \in 1..Len(s) : s[k] = " "

\* C13: when run() is called with the webhook argument and environment
\* variable both empty or whitespace, it finds no webhook; a call that found
\* none has loaded
\* nothing, fetched nothing, sent nothing and written nothing, and it has
\* returned (it never raises), so that the next call can start.
C13_NoWebhookNoWork ==
    /\ pc = "start" =>
          \A arg, env \in WebhookValues :
              (Blank(arg) /\ Blank(env)) => webhook_url(arg, env) = <<>>
    /\ ~webhook => pc \in {"start", "returned"}
    /\ (pc = "returned" /\ ~webhook) =>
          /\ seen = {} /\ seen0 = {}
          /\ articles = <<>>
          /\ sent = <<>>
          /\ saves = 0 /\ file = fileAtStart

\* A call of run() without a webhook has returned, after a call that saved,
\* over a state file that holds identifiers.
C13_Witness ==
    /\ pc = "returned" /\ ~webhook
    /\ cycle = 2 /\ prev.outcome = "saved"
    /\ load_seen_ids(file).ids # {}

\* The candidates of this call of run() that come from source src, in order.
SourceArticles(src) == SelectSeq(articles, LAMBDA a : a.source = src)

SeqIds(as) == [k \in 1..Len(as) |-> as[k].id]

SeqLinks(as) == [k \in 1..Len(as) |-> as[k].link]

FirstN(q, n) == SubSeq(q, 1, IF Len(q) < n THEN Len(q) ELSE n)

\* The identifiers of the items of an API response that carry an id, in the
\* response's order.
ResponseIds(items) ==
    LET withId == SelectSeq(items, LAMBDA it : it.id # NullEntry)
    IN [k \in 1..Len(withId) |-> TE_PREFIX \o PyStr(withId[k].id)]

\* The links of the entries of a feed response that carry one, in the
\* response's order.
ResponseLinks(entries) == SelectSeq(entries, LAMBDA e : ~Blank(e))

\* The API request failed, or its payload is not a list of objects.
TEFailed == inputs.te.kind # "list" \/ \E k \in 1..Len(inputs.te.items) : ~inputs.te.items[k].isdict

\* Feed k could not be fetched or parsed, or came back empty and malformed.
FeedFailed(k) == inputs.rss[k].raises \/ (inputs.rss[k].bozo /\ inputs.rss[k].entries = <<>>)

\* The fetches of this call of run() are over.
Fetched == pc \in {"dispatch", "returned"}

\* C15: a source that fails (the API request, or one feed) gives no candidate
\* and nothing else: run() is not left by an exception, every source that did
\* not fail contributes the articles of its response, and the call goes on to
\* the dispatch loop and the save.
C15_SourceFailureIsolated ==
    /\ pc # "crashed_fetch"
    /\ Fetched =>
          /\ SeqIds(SourceArticles(TE_SOURCE)) =
                IF TEFailed THEN <<>> ELSE ResponseIds(inputs.te.items)
          /\ \A k \in 1..Len(RSS_FEEDS) :
                SeqLinks(SourceArticles(RSS_FEEDS[k])) =
                   IF FeedFailed(k) THEN <<>> ELSE ResponseLinks(inputs.rss[k].entries)

\* C16: from every source the candidates taken are at most the per-source
\* limit (run()'s limit for the API, RSS_LIMIT for a feed), and they are those
\* of the first entries of the response, in the response's order.
C16_PerSourceLimit ==
    Fetched =>
        /\ Len(SourceArticles(TE_SOURCE)) <= inputs.limit
        /\ SeqIds(SourceArticles(TE_SOURCE)) = ResponseIds(FirstN(inputs.te.items, inputs.limit))
        /\ \A k \in 1..Len(RSS_FEEDS) :
              /\ Len(SourceArticles(RSS_FEEDS[k])) <= RSS_LIMIT
              /\ SeqLinks(SourceArticles(RSS_FEEDS[k])) =
                    ResponseLinks(FirstN(inputs.rss[k].entries, RSS_LIMIT))

\* C17: the identifier of an API candidate differs from the identifier of
\* every feed candidate, and the identifiers of two candidates of feeds with
\* different slugs differ, also when their links are equal.
C17_NamespacesDisjoint ==
    \A j, k \in 1..Len(articles) :
        LET a == articles[j]
            b == articles[k]
        IN a.id = b.id =>
              /\ ~(a.source = TE_SOURCE /\ b.source # TE_SOURCE)
              /\ ~(a.source # TE_SOURCE /\ b.source # TE_SOURCE
                    /\ _normalize_source(a.source) # _normalize_source(b.source))

\* Candidates of the API and of both feeds, the two feeds carrying the same
\* link.
C17_Witness ==
    /\ Fetched
    /\ \E j, k, l \in 1..Len(articles) :
          /\ articles[j].source = TE_SOURCE
          /\ articles[k].source = RSS_FEEDS[1]
          /\ articles[l].source = RSS_FEEDS[2]
          /\ articles[k].link = articles[l].link

\* The place of a source in the candidate order: the API, then the feeds as
\* configured.
Rank(src) == IF src = TE_SOURCE THEN 0
             ELSE CHOOSE i \in 1..Len(RSS_FEEDS) : RSS_FEEDS[i] = src

\* The candidates are complete and the dispatch loop is about to start.
CandidatesReady == pc = "dispatch" /\ idx = 1

\* C18: notifications are sent in candidate order (by increasing index in
\* `articles`), and the candidates, when the dispatch loop starts, are the
\* API's articles, then each feed's in the configured feed order, each
\* source's in the order of its response.
C18_NotificationOrder ==
    /\ \A k \in 1..(Len(sent) - 1) : sent[k].i < sent[k + 1].i
    /\ CandidatesReady =>
          \A j, k \in 1..Len(articles) :
              j < k => Rank(articles[j].source) <= Rank(articles[k].source)
    /\ CandidatesReady =>
          /\ SeqIds(SourceArticles(TE_SOURCE)) = ResponseIds(fetch_te_news(inputs.te))
          /\ \A k \in 1..Len(RSS_FEEDS) :
                \A m, n \in 1..Len(SourceArticles(RSS_FEEDS[k])) :
                    m < n =>
                      \E p, q \in 1..Len(inputs.rss[k].entries) :
                          /\ p < q
                          /\ inputs.rss[k].entries[p] = SourceArticles(RSS_FEEDS[k])[m].link
                          /\ inputs.rss[k].entries[q] = SourceArticles(RSS_FEEDS[k])[n].link

\* A call of run() has notified two API articles, then two different
\* articles of the first feed, then one of the second.
C18_Witness ==
    /\ pc = "returned"
    /\ \E a, b, c, d, e \in 1..Len(sent) :
          /\ a < b /\ b < c /\ c < d /\ d < e
          /\ SentCall(a).source = TE_SOURCE /\ SentCall(b).source = TE_SOURCE
          /\ SentCall(c).source = RSS_FEEDS[1] /\ SentCall(d).source = RSS_FEEDS[1]
          /\ SentCall(c).link # SentCall(d).link
          /\ SentCall(e).source = RSS_FEEDS[2]

\* run() was left by an exception, which ends main() and the process.
Crashed == pc \in {"crashed", "crashed_fetch", "crashed_save"}

\* C14: in continuous mode no error of a cycle (a failing source, a state file
\* that is unreadable, corrupt or of an unexpected shape, a failing send, a
\* failing write of the state file) terminates the process.
C14_LoopSurvivesErrors == main.loop => ~Crashed

\* The set the next load_seen_ids can return after a completed save of seen_ids.
SavedSets(seen_ids) == {load_seen_ids(f).ids : f \in save_seen_ids(seen_ids)}

\* C11: after a crash inside save_seen_ids, the next load_seen_ids returns the
\* complete set that was persisted before the call or the complete set the
\* call was persisting, and does not raise.
C11_CrashInSaveKeepsState ==
    pc = "killed_save" =>
        LET next == load_seen_ids(file)
        IN /\ ~next.raised
           /\ next.ids = seen0 \/ next.ids \in SavedSets(seen)

\* C12: when save_seen_ids is given more than MAX_SEEN_IDS identifiers, those
\* dropped are the oldest-inserted: no identifier added by this call of run()
\* is missing from the persisted state while one loaded at its start is kept.
C12_EvictsOldestFirst ==
    (Completed /\ Cardinality(seen) > MAX_SEEN_IDS) =>
        \A new \in seen \ seen0 : \A old \in seen0 :
            ~(StrEntry(new) \notin file.items /\ StrEntry(old) \in file.items)

\* The bare numeric (legacy) entries of state file f whose article the API
\* returned in this call of run(), as the identifiers of those articles.
LegacyReturned(f) ==
    {TE_PREFIX \o PyStr(e) : e \in {x \in IdsIter(f) : BareNumeric(PyStr(x))}}
    \cap CandidateIds

\* No entry of state file f is a bare number, and load_seen_ids returns its
\* entries as they are.
NothingToMigrate(f) ==
    /\ \A e \in f.items : e.t = "str" /\ ~BareNumeric(e.s)
    /\ load_seen_ids(f).ids = {e.s : e \in f.items}

\* C19 as stated: after a completed call of run(), an article whose native id
\* was a legacy entry of the state file has not been notified, its "te:" form
\* is in the persisted state, and the persisted state needs no migration.
C19_Original ==
    Completed =>
        /\ \A id \in LegacyReturned(fileAtStart) :
              SentCount(id) = 0 /\ StrEntry(id) \in file.items
        /\ NothingToMigrate(file)

\* C19: after a completed call of run(), an article whose native id was a
\* legacy entry of the state file has not been notified; its "te:" form is in
\* the persisted state when the set saved was within MAX_SEEN_IDS; and the
\* persisted state has no bare numeric entry and loads without rewriting.
C19_LegacyHonoured ==
    Completed =>
        /\ \A id \in LegacyReturned(fileAtStart) :
              /\ SentCount(id) = 0
              /\ Cardinality(seen) <= MAX_SEEN_IDS => StrEntry(id) \in file.items
        /\ NothingToMigrate(file)

\* A completed call of run() over a legacy state file, in which the API
\* returned an article whose id is a legacy entry, and a feed a new article.
C19_Witness ==
    /\ Completed
    /\ LegacyReturned(fileAtStart) # {}
    /\ Len(sent) > 0
    /\ Cardinality(seen) <= MAX_SEEN_IDS
    /\ \A id \in LegacyReturned(fileAtStart) : StrEntry(id) \in file.items

Max(a, b) == IF a >= b THEN a ELSE b

\* C20: in continuous mode, for every interval given (zero and negative ones
\* included), each sleep lasts max(interval, 60) seconds; there is exactly one
\* sleep between two consecutive calls of run(); a call of run() starts only
\* from main()'s entry or from the end of a sleep, and a sleep starts only
\* when run() has returned, so calls never overlap.
C20_SleepAndSequence ==
    /\ [](main.loop =>
            /\ \A k \in 1..Len(main.slept) : main.slept[k] = Max(main.arg, 60)
            /\ Len(main.slept) = (cycle - 1) + (IF pc = "sleeping" THEN 1 ELSE 0))
    /\ [][/\ (pc' = "start" /\ pc # "start") => pc \in {"main", "sleeping"}
          /\ (pc' = "sleeping" /\ pc # "sleeping") => pc = "returned"]_vars

\* The second call of run() has started, in continuous mode with an interval
\* of zero or less, after one sleep of 60 seconds.
C20_Witness ==
    /\ main.loop /\ main.arg <= 0
    /\ cycle = 2 /\ pc = "fetch_te"
    /\ main.slept = <<60>>

====
